---- MODULE Spec2Model ----
(***************************************************************************)
(* Model of the PsychoPy package tools (psychopy/tools/pkgtools.py), the   *)
(* plugin manager panel (psychopy/app/plugin_manager/plugins.py) and the   *)
(* TDT singleton manager (psychopy/tdt_manager, psychopy/tdt_sound).       *)
(*                                                                         *)
(* Strings that the code converts or compares by prefix (project names,    *)
(* metadata directory names) are sequences of one-character tokens, so     *)
(* that safe_name, to_filename, lower-casing and startswith are computed.  *)
(* A version and the ".dist-info" suffix are single tokens.                *)
(***************************************************************************)
EXTENDS Integers, Sequences, FiniteSets, TLC

VARIABLES
    userDirExists,  \* os.path.exists(prefs.paths['packages'])
    userMeta,       \* metadata directories of the user package directory
    userTop,        \* top-level package directories of the user package directory
    site,           \* distributions installed outside the user package directory
    ws,             \* pkg_resources.working_set of this process
    ret,            \* what the last call did and returned
    startUp,        \* the list of startup plugins
    listState,      \* PluginBrowserList: not made, made, or failed in __init__
    items,          \* PluginBrowserList.items, as the pipnames of their infos
    initState,      \* PluginBrowserList.initState
    tdtInstance,    \* TDTManager.instance: 0 while the class has none
    tdtObjects,     \* TDTManager objects allocated so far
    synCreated,     \* tdt.SynapseAPI connections created so far
    returned,       \* the object each call TDTManager() returned
    sounds,         \* the TDTSound objects constructed
    device,         \* the mode and the strobes of the Synapse device
    buttons,        \* the install buttons of the items and of the panel
    form            \* the Form of the survey and the last height asked

pkgVars == <<userDirExists, userMeta, userTop, site, ws, ret>>

pluginVars == <<startUp, listState, items, initState>>

tdtVars == <<tdtInstance, tdtObjects, synCreated, returned, sounds, device>>

guiVars == <<buttons, form>>

vars == <<pkgVars, pluginVars, tdtVars, guiVars>>

(***************************************************************************)
(* Bounds of the model.                                                    *)
(***************************************************************************)
MaxMeta == 2

(***************************************************************************)
(* Values.                                                                 *)
(***************************************************************************)
None == "None"

NoName == <<"None">>

\* a metadata directory without a top_level.txt
NoFile == [file |-> FALSE, lines |-> <<>>]

TopFile(lines) == [file |-> TRUE, lines |-> lines]

DistInfo == ".dist-info"

Versions == {"1", "2"}

\* project parts of the metadata directory names found in the user directory
FNames == {<<"a">>, <<"A">>, <<"a", "_", "b">>}

\* package names given to the functions
PkgArgs == {<<"a">>, <<"A">>, <<"a", "_", "b">>, <<"a", "-", "b">>, <<"b">>}

\* names of top-level package directories (importable names)
TopNames == {<<"p">>, <<"q">>}

\* contents of a top_level.txt
TopChoices == {NoFile, TopFile(<<<<"p">>>>), TopFile(<<<<"p">>, <<"q">>>>)}

Range(s) == {s[i] : i \in 1..Len(s)}

StartsWith(s, p) == Len(s) >= Len(p) /\ SubSeq(s, 1, Len(p)) = p

EndsWith(s, t) == Len(s) >= 1 /\ s[Len(s)] = t

\* [A-Za-z0-9.] over the characters of the model
IsSafeChar(c) == c \in {"a", "b", "A", "B", "."}

RECURSIVE DropUnsafe(_)
DropUnsafe(s) ==
    IF s = <<>> \/ IsSafeChar(Head(s)) THEN s ELSE DropUnsafe(Tail(s))

\* pkg_resources.safe_name: re.sub('[^A-Za-z0-9.]+', '-', name)
RECURSIVE safe_name(_)
safe_name(s) ==
    IF s = <<>> THEN <<>>
    ELSE IF IsSafeChar(Head(s)) THEN <<Head(s)>> \o safe_name(Tail(s))
    ELSE <<"-">> \o safe_name(DropUnsafe(Tail(s)))

\* pkg_resources.to_filename: name.replace('-', '_')
to_filename(s) == [i \in 1..Len(s) |-> IF s[i] = "-" THEN "_" ELSE s[i]]

LowerChar(c) == IF c = "A" THEN "a" ELSE IF c = "B" THEN "b" ELSE c

\* str.lower
lower(s) == [i \in 1..Len(s) |-> LowerChar(s[i])]

\* Distribution.key: the lower-cased project name
Key(dist) == lower(dist.project_name)

\* name of a metadata directory: <project>-<version>[.<py_version>].dist-info
MetaDirName(fname, version, py_version) ==
    fname \o <<"-", version>>
          \o (IF py_version = None THEN <<>> ELSE <<".", py_version>>)
          \o <<DistInfo>>

(***************************************************************************)
(* pkg_resources: the working set and its distributions.                   *)
(* A distribution is [project_name, version, py_version, location,         *)
(* metaVersion]: metaVersion is the 'Version' field of its PKG-INFO, None  *)
(* when the field is absent.                                               *)
(***************************************************************************)
UserPath == "user"

SitePath == "site"

\* distributions that may be installed outside the user package directory
SiteUniverse ==
    {[project_name |-> <<"b">>, version |-> "1", py_version |-> "3",
      location |-> SitePath, metaVersion |-> None]}

\* the distribution pkg_resources builds from a metadata directory of the
\* user package directory (Distribution.from_location: project_name is
\* safe_name of the name part, py_version is None for a .dist-info)
DistOfMeta(m) ==
    [project_name |-> safe_name(m.fname), version |-> m.version,
     py_version |-> None, location |-> UserPath, metaVersion |-> m.version]

\* pkg_resources.get_distribution(name): the distributions of the working
\* set whose key is the key of the requirement (none: DistributionNotFound)
get_distribution(name, workingSet) ==
    {d \in workingSet : Key(d) = lower(safe_name(name))}

UniqueKeys(S) == \A d1, d2 \in S : Key(d1) = Key(d2) => d1 = d2

\* the working sets a scan of the environment can build: one distribution
\* per key found
WorkingSetsOf(meta, siteDists) ==
    LET found == {DistOfMeta(m) : m \in meta} \cup siteDists
        slots == 1..Cardinality({Key(d) : d \in found})
    IN  {S \in {{f[i] : i \in slots} : f \in [slots -> found]} :
            /\ UniqueKeys(S)
            /\ {Key(d) : d \in S} = {Key(d) : d \in found}}

(***************************************************************************)
(* The user package directory.  A metadata directory is                    *)
(* [fname, version, top]: its name is fname-version.dist-info and top is   *)
(* its top_level.txt: the list of its lines, or NoFile.                    *)
(***************************************************************************)
DirNameOf(m) == MetaDirName(m.fname, m.version, None)

MetaNames(meta) == {DirNameOf(m) : m \in meta}

MetaNamed(meta, name) == CHOOSE m \in meta : DirNameOf(m) = name

\* the orders in which os.listdir may list a set of names
Orderings(S) ==
    {f \in [1..Cardinality(S) -> S] : \A i, j \in 1..Cardinality(S) : f[i] = f[j] => i = j}

IsDir(line, top) == line \in top

\* _getUserPackageTopLevels: for each listed *.dist-info directory holding a
\* top_level.txt, the lines of it that are directories of the user package
\* directory, in the order of the listing
_getUserPackageTopLevels(listing, meta, top) ==
    LET kept == SelectSeq(listing,
                    LAMBDA n : EndsWith(n, DistInfo) /\ MetaNamed(meta, n).top.file)
    IN  [order |-> kept,
         dirs  |-> [n \in Range(kept) |->
                      SelectSeq(MetaNamed(meta, n).top.lines,
                                LAMBDA l : IsDir(l, top))]]

\* _isUserPackage: some distribution of the working set has the key
\* safe_name(package) and is located in the user package directory
_isUserPackage(package, workingSet) ==
    \E pkg \in workingSet :
        /\ safe_name(package) = Key(pkg)
        /\ \E thisPkg \in get_distribution(Key(pkg), workingSet) :
              thisPkg.location = UserPath

(***************************************************************************)
(* _uninstallUserPackage.  A path to remove is [abs, name]: abs is TRUE    *)
(* for a path joined to the user package directory (a top-level            *)
(* directory) and FALSE for the bare name of a metadata directory, which   *)
(* the operating system resolves against the working directory.            *)
(***************************************************************************)
NoMetadataMsg == "No package metadata found at {metaPath}"

AbsPath(name) == [abs |-> TRUE, name |-> name]

RelPath(name) == [abs |-> FALSE, name |-> name]

\* the inner loop over the other packages, for one top-level directory of
\* the package: whether it is safe to remove, and the metadata directories
\* of other versions to remove with it
RECURSIVE ScanOthersIgnoresUnrelated(_, _, _, _)
ScanOthersIgnoresUnrelated(pkgTopLevel, others, dirs, pathHead) ==
    IF others = <<>> THEN [safe |-> TRUE, older |-> <<>>]
    ELSE LET otherPkg == Head(others)
             rest == ScanOthersIgnoresUnrelated(pkgTopLevel, Tail(others), dirs, pathHead)
         IN  IF pkgTopLevel \in Range(dirs[otherPkg]) /\ StartsWith(otherPkg, pathHead)
             THEN [safe |-> rest.safe, older |-> <<RelPath(otherPkg)>> \o rest.older]
             ELSE rest

RECURSIVE ScanOthers(_, _, _, _)
ScanOthers(pkgTopLevel, others, dirs, pathHead) ==
    IF others = <<>> THEN [safe |-> TRUE, older |-> <<>>]
    ELSE LET otherPkg == Head(others)
         IN  IF pkgTopLevel \in Range(dirs[otherPkg])
             THEN IF StartsWith(otherPkg, pathHead)
                  THEN LET rest == ScanOthers(pkgTopLevel, Tail(others), dirs, pathHead)
                       IN  [safe |-> rest.safe,
                            older |-> <<RelPath(otherPkg)>> \o rest.older]
                  ELSE [safe |-> FALSE, older |-> <<>>]
             ELSE ScanOthers(pkgTopLevel, Tail(others), dirs, pathHead)

\* the outer loop: the list toRemove
RECURSIVE ToRemove(_, _, _, _)
ToRemove(pkgTopLevelDirs, others, dirs, pathHead) ==
    IF pkgTopLevelDirs = <<>> THEN <<>>
    ELSE LET pkgTopLevel == Head(pkgTopLevelDirs)
             scan == ScanOthers(pkgTopLevel, others, dirs, pathHead)
         IN  scan.older
             \o (IF scan.safe THEN <<AbsPath(pkgTopLevel)>> ELSE <<>>)
             \o ToRemove(Tail(pkgTopLevelDirs), others, dirs, pathHead)

\* the top-level directories reported as 'Can not safely remove this
\* directory since another package appears to use it'
RECURSIVE NotSafe(_, _, _, _)
NotSafe(pkgTopLevelDirs, others, dirs, pathHead) ==
    IF pkgTopLevelDirs = <<>> THEN {}
    ELSE (IF ScanOthers(Head(pkgTopLevelDirs), others, dirs, pathHead).safe
          THEN {} ELSE {Head(pkgTopLevelDirs)})
         \cup NotSafe(Tail(pkgTopLevelDirs), others, dirs, pathHead)

\* the paths of toRemove that exist when they are reached, as the sets of
\* top-level directories and of metadata directories deleted
RemovedTop(toRemove, top) ==
    {p.name : p \in {q \in Range(toRemove) : q.abs /\ q.name \in top}}

RemovedMeta(toRemove, meta, cwdIsUserDir) ==
    {p.name : p \in {q \in Range(toRemove) :
                        ~q.abs /\ cwdIsUserDir /\ q.name \in MetaNames(meta)}}

\* what a call _uninstallUserPackage(package) does in a user directory
\* listed in the order `listing`: the exception raised (None: none), the
\* returned code and 'stderr', and the directories it deletes
_uninstallUserPackage(package, workingSet, exists, meta, top, listing, cwdIsUserDir) ==
    LET pkgName == safe_name(package)
        found == get_distribution(pkgName, workingSet)
        nothing == [raised |-> None, retcode |-> FALSE, stderr |-> "",
                    rmTop |-> {}, rmMeta |-> {}, unsafe |-> {}]
    IN  IF found = {}
        THEN [nothing EXCEPT !.raised = "DistributionNotFound"]
        ELSE
        LET thisPkg == CHOOSE d \in found : TRUE
            pathHead == to_filename(thisPkg.project_name) \o <<"-">>
            metaDir == MetaDirName(to_filename(thisPkg.project_name),
                                   thisPkg.version, thisPkg.py_version)
        IN  IF ~(exists /\ metaDir \in MetaNames(meta))
            THEN [nothing EXCEPT !.stderr = NoMetadataMsg]
            ELSE
            LET allTopLevelPackages == _getUserPackageTopLevels(listing, meta, top)
            IN  IF metaDir \notin Range(allTopLevelPackages.order)
                THEN [nothing EXCEPT !.raised = "KeyError"]
                ELSE
                LET pkgTopLevelDirs == allTopLevelPackages.dirs[metaDir]
                    others == SelectSeq(allTopLevelPackages.order,
                                        LAMBDA n : n # metaDir)
                    toRemove == ToRemove(pkgTopLevelDirs, others,
                                         allTopLevelPackages.dirs, pathHead)
                IN  [raised |-> None, retcode |-> TRUE, stderr |-> "",
                     rmTop |-> RemovedTop(toRemove, top),
                     rmMeta |-> RemovedMeta(toRemove, meta, cwdIsUserDir)
                                  \cup {metaDir},
                     unsafe |-> NotSafe(pkgTopLevelDirs, others,
                                        allTopLevelPackages.dirs, pathHead)]

(***************************************************************************)
(* The record of the last call.                                            *)
(***************************************************************************)
NoCmd == [argv |-> <<>>, package |-> NoName, target |-> None]

RetIdle ==
    [fn |-> "none", package |-> NoName, target |-> None, raised |-> None,
     retcode |-> FALSE, stderr |-> "", cmd |-> NoCmd, pip |-> FALSE,
     manual |-> FALSE, rmTop |-> {}, rmMeta |-> {}, unsafe |-> {},
     state |-> None, version |-> None, value |-> None, changes |-> {},
     resp |-> [status |-> 0, catalog |-> <<>>],
     details |-> [isNone |-> TRUE, objs |-> <<>>]]

\* cmd of uninstallPackage; "<package>" stands for the field package
PipUninstallCmd(package) ==
    [argv |-> <<"sys.executable", "-m", "pip", "uninstall", "<package>",
                "--yes", "--no-input", "--no-color">>,
     package |-> package, target |-> None]

\* cmd of _uninstallUserPackage: the function noted as if it was a command
ManualCmd ==
    [argv |-> <<"python psychopy.tools.pkgtools._uninstallUserPackage(package)">>,
     package |-> NoName, target |-> None]

\* what a 'pip uninstall' subprocess may do: remove the distribution of
\* that name installed outside the user directory and write nothing or a
\* warning to stderr, or remove nothing and report on stderr
PipUninstallOutcomes(package, siteDists) ==
    LET hit == {d \in siteDists : Key(d) = lower(safe_name(package))}
    IN  {[site |-> siteDists, stderr |-> e] :
            e \in {"WARNING: Skipping <package> as it is not installed.",
                   "ERROR: Exception"}}
        \cup (IF hit = {} THEN {}
              ELSE {[site |-> siteDists \ hit, stderr |-> e] :
                       e \in {"", "WARNING: pip"}})

\* the calls _uninstallUserPackage(package) can make, as function `fn` of
\* the record: the directory and the record each leaves
ManualUninstall(fn, package) ==
    {LET r == _uninstallUserPackage(package, ws, userDirExists, userMeta,
                                    userTop, listing, cwdIsUserDir)
     IN  [meta |-> {m \in userMeta : DirNameOf(m) \notin r.rmMeta},
          top |-> userTop \ r.rmTop,
          site |-> site,
          ret |-> [RetIdle EXCEPT !.fn = fn, !.package = package,
                      !.raised = r.raised, !.retcode = r.retcode,
                      !.stderr = r.stderr, !.manual = TRUE,
                      !.cmd = IF r.raised = None THEN ManualCmd ELSE NoCmd,
                      !.rmTop = r.rmTop, !.rmMeta = r.rmMeta,
                      !.unsafe = r.unsafe]] :
        listing \in Orderings(MetaNames(userMeta)), cwdIsUserDir \in BOOLEAN}

UsesPipAlways(package, workingSet) == FALSE

\* the test of uninstallPackage: delete 'manually' if in the package dir
UninstallsManually(package, workingSet) == _isUserPackage(package, workingSet)

\* retcode of the pip branches: bool(stderr)
PipRetcode(stderr) == stderr # ""

\* the calls uninstallPackage(package) can make
uninstallPackage(package) ==
    IF UninstallsManually(package, ws)
    THEN ManualUninstall("uninstallPackage", package)
    ELSE {[meta |-> userMeta, top |-> userTop, site |-> out.site,
           ret |-> [RetIdle EXCEPT !.fn = "uninstallPackage",
                       !.package = package, !.pip = TRUE,
                       !.cmd = PipUninstallCmd(package),
                       !.stderr = out.stderr,
                       !.retcode = PipRetcode(out.stderr)]] :
             out \in PipUninstallOutcomes(package, site)}

\* no call has been made yet on the state drawn
Idle == ret.fn = "none"

UninstallUserPackage ==
    /\ Idle
    /\ \E package \in PkgArgs :
          \E o \in ManualUninstall("_uninstallUserPackage", package) :
             /\ userMeta' = o.meta /\ userTop' = o.top /\ site' = o.site
             /\ ret' = o.ret
    /\ UNCHANGED <<userDirExists, ws, pluginVars, tdtVars, guiVars>>

UninstallPackage ==
    /\ Idle
    /\ \E package \in PkgArgs :
          \E o \in uninstallPackage(package) :
             /\ userMeta' = o.meta /\ userTop' = o.top /\ site' = o.site
             /\ ret' = o.ret
    /\ UNCHANGED <<userDirExists, ws, pluginVars, tdtVars, guiVars>>

(***************************************************************************)
(* getInstallState, isInstalled, getInstalledPackages, getPackageMetadata. *)
(***************************************************************************)
\* getInstalledPackages as the dict isInstalled builds: project names
getInstalledPackages(workingSet) == {d.project_name : d \in workingSet}

isInstalled(packageName, workingSet) ==
    packageName \in getInstalledPackages(workingSet)

\* getPackageMetadata(...).get('Version', None)
MetadataVersion(packageName, workingSet) ==
    (CHOOSE d \in get_distribution(packageName, workingSet) : TRUE).metaVersion

getInstallStateByLocation(package, workingSet) ==
    IF package = NoName THEN [state |-> None, version |-> None]
    ELSE IF \E d \in get_distribution(package, workingSet) : TRUE
    THEN [state |-> IF \E d \in get_distribution(package, workingSet) :
                         d.location = UserPath THEN "u" ELSE "s",
          version |-> MetadataVersion(package, workingSet)]
    ELSE [state |-> "n", version |-> None]

getInstallState(package, workingSet) ==
    IF package = NoName THEN [state |-> None, version |-> None]
    ELSE IF isInstalled(package, workingSet)
    THEN [state |-> IF _isUserPackage(package, workingSet) THEN "u" ELSE "s",
          version |-> MetadataVersion(package, workingSet)]
    ELSE [state |-> "n", version |-> None]

GetInstallState ==
    /\ Idle
    /\ \E package \in PkgArgs \cup {NoName} :
          LET r == getInstallState(package, ws)
          IN  ret' = [RetIdle EXCEPT !.fn = "getInstallState",
                         !.package = package, !.state = r.state,
                         !.version = r.version]
    /\ UNCHANGED <<userDirExists, userMeta, userTop, site, ws, pluginVars, tdtVars, guiVars>>

(***************************************************************************)
(* installPackage.                                                         *)
(***************************************************************************)
\* the targets given: None (the user package directory), the user package
\* directory itself, another directory that exists, one that does not
Targets == {None, UserPath, "other", "missing"}

\* target = prefs.paths['packages'] if target is None
ResolveTarget(target) == IF target = None THEN UserPath ELSE target

PathExistsAlways(target, exists) == TRUE

\* os.path.exists(target)
PathExists(target, exists) ==
    IF target = UserPath THEN exists ELSE target = "other"

\* cmd of installPackage; "<package>" and "<target>" stand for the fields
PipInstallCmd(package, target, upgrade, forceReinstall, noDeps) ==
    [argv |-> <<"sys.executable", "-m", "pip", "install", "<package>",
                "--target", "<target>">>
              \o (IF upgrade THEN <<"--upgrade">> ELSE <<>>)
              \o (IF forceReinstall THEN <<"--force-reinstall">> ELSE <<>>)
              \o (IF noDeps THEN <<"--no-deps">> ELSE <<>>)
              \o <<"--no-input", "--no-color", "--no-warn-conflicts">>,
     package |-> package, target |-> target]

\* the top_level.txt of the distribution of each project
ContentsOf(fname) ==
    IF fname = <<"a">> THEN TopFile(<<<<"p">>, <<"q">>>>) ELSE TopFile(<<<<"p">>>>)

\* the package index: the newest distribution of each project it serves
IndexEntries ==
    {[fname |-> <<"a">>, version |-> "2", top |-> ContentsOf(<<"a">>)],
     [fname |-> <<"a", "_", "b">>, version |-> "1",
      top |-> ContentsOf(<<"a", "_", "b">>)]}

\* the metadata directories a 'pip install <package>' may write: that of
\* the project of that name on the index
Installable(package) ==
    {m \in IndexEntries : lower(safe_name(m.fname)) = lower(safe_name(package))}

\* what a 'pip install --target' subprocess may do: install a distribution
\* (into the user package directory when that is the target) and write
\* nothing or a warning to stderr, or install nothing and report on stderr
PipInstallOutcomes(package, target, meta, top) ==
    {[meta |-> meta, top |-> top, stderr |-> "ERROR: No matching distribution"]}
    \cup {[meta |-> IF target = UserPath
                    THEN {o \in meta : DirNameOf(o) # DirNameOf(m)} \cup {m}
                    ELSE meta,
           top |-> IF target = UserPath THEN top \cup Range(m.top.lines) ELSE top,
           stderr |-> e] :
             m \in {n \in Installable(package) :
                       target = UserPath =>
                           Cardinality(MetaNames(meta) \cup {DirNameOf(n)}) <= MaxMeta},
             e \in {"", "WARNING: pip"}}

\* the calls installPackage(package, target, ...) can make
installPackage(package, givenTarget, upgrade, forceReinstall, noDeps) ==
    LET target == ResolveTarget(givenTarget)
        called == [RetIdle EXCEPT !.fn = "installPackage", !.package = package,
                                  !.target = givenTarget]
    IN  IF ~PathExists(target, userDirExists)
        THEN {[meta |-> userMeta, top |-> userTop,
               ret |-> [called EXCEPT !.raised = "NotADirectoryError"]]}
        ELSE {[meta |-> out.meta, top |-> out.top,
               ret |-> [called EXCEPT !.pip = TRUE,
                           !.cmd = PipInstallCmd(package, target, upgrade,
                                                 forceReinstall, noDeps),
                           !.stderr = out.stderr,
                           !.retcode = PipRetcode(out.stderr)]] :
                 out \in PipInstallOutcomes(package, target, userMeta, userTop)}

InstallPackage ==
    /\ Idle
    /\ \E package \in PkgArgs, target \in Targets,
          upgrade \in BOOLEAN, forceReinstall \in BOOLEAN, noDeps \in BOOLEAN :
          \E o \in installPackage(package, target, upgrade, forceReinstall, noDeps) :
             /\ userMeta' = o.meta /\ userTop' = o.top /\ ret' = o.ret
    /\ UNCHANGED <<userDirExists, site, ws, pluginVars, tdtVars, guiVars>>

(***************************************************************************)
(* The package tools over every state of the user package directory.       *)
(***************************************************************************)
NoEntry == [fname |-> <<>>, version |-> "0", top |-> NoFile]

\* the metadata directories a user package directory may hold: two versions
\* of project a, and one version of the others
MetaEntries ==
    {m \in [fname : FNames, version : Versions, top : TopChoices] :
        m.version = "1" \/ m.fname = <<"a">>}

MetaStates ==
    {S \in {{f[i] : i \in {j \in 1..MaxMeta : f[j] # NoEntry}} :
               f \in [1..MaxMeta -> MetaEntries \cup {NoEntry}]} :
        \A m1, m2 \in S : DirNameOf(m1) = DirNameOf(m2) => m1 = m2}

\* the user package directories that installations leave
InstalledStates ==
    {S \in MetaStates : \A m \in S : m.top = ContentsOf(m.fname)}

\* nothing of the plugin manager or of the TDT manager exists yet
InitPlugin ==
    /\ startUp = {}
    /\ listState = [phase |-> "none", status |-> 0, raised |-> None]
    /\ items = <<>>
    /\ initState = {}

\* PluginInstallBtn.__init__: a wx.Button with the label "...", enabled as
\* every new window is; no state was marked on it
NewInstallBtn == [enabled |-> TRUE, label |-> "...", marked |-> "unmarked"]

\* the panel shows no plugin
NoInfo == <<"psychopy-...">>

\* the buttons of the list items and of the details panel as constructed
NewButtons ==
    [item |-> [n \in {<<"a">>, <<"a", "-", "b">>} |-> NewInstallBtn],
     panel |-> NewInstallBtn,
     activeEnabled |-> TRUE,
     info |-> NoInfo]

\* no Form was made
NoForm == [made |-> FALSE, textHeight |-> 0, surveyItems |-> <<>>,
           asked |-> 0, respHeight |-> 0]

\* nothing of the windows exists yet
InitGui ==
    /\ buttons = NewButtons
    /\ form = NoForm

\* TDTWorkingMode.IDLE.value
IDLE == 0

\* TDTWorkingMode.RECORDING.value
RECORDING == 2

\* the class TDTManager without the attribute 'instance'
NoInstance == [obj |-> 0, syn |-> 0]

\* no TDTManager() was called: the class has no instance, no SynapseAPI
\* object exists and the device is idle
InitTDT ==
    /\ tdtInstance = NoInstance
    /\ tdtObjects = 0
    /\ synCreated = 0
    /\ returned = <<>>
    /\ sounds = <<>>
    /\ device = [mode |-> IDLE, strobes |-> 0]

InitPkg ==
    /\ userDirExists \in BOOLEAN
    /\ userMeta \in IF userDirExists THEN MetaStates ELSE {{}}
    /\ userTop \in IF userDirExists THEN SUBSET TopNames ELSE {{}}
    /\ site \in SUBSET SiteUniverse
    /\ ws \in WorkingSetsOf(userMeta, site)
    /\ ret = RetIdle
    /\ InitPlugin
    /\ InitTDT
    /\ InitGui

NextPkg ==
    \/ UninstallUserPackage
    \/ UninstallPackage
    \/ GetInstallState

SpecPkg == InitPkg /\ [][NextPkg]_vars

InitInstall ==
    /\ userDirExists \in BOOLEAN
    /\ userMeta \in IF userDirExists THEN InstalledStates ELSE {{}}
    /\ userTop = UNION {Range(m.top.lines) : m \in userMeta}
    /\ site \in SUBSET SiteUniverse
    /\ ws \in WorkingSetsOf(userMeta, site)
    /\ ret = RetIdle
    /\ InitPlugin
    /\ InitTDT
    /\ InitGui

NextInstall == InstallPackage

SpecInstall == InitInstall /\ [][NextInstall]_vars

(***************************************************************************)
(* PluginInfo (plugins.py).  psychopy.plugins (scanPlugins, listPlugins,   *)
(* startUpPlugins, isStartUpPlugin) and plugin_manager.utils are not among *)
(* the sources: they are modelled by what their callers say of them.       *)
(***************************************************************************)
\* pipnames of the plugins
PluginNames == {<<"a">>, <<"a", "-", "b">>}

\* what is assigned to PluginInfo.active and PluginInfo.installed
Tri == {None, "True", "False"}

\* plugins.scanPlugins(): the working set is built again
scanPlugins(meta, siteDists) == WorkingSetsOf(meta, siteDists)

\* plugins.listPlugins(which='all'): the plugins installed
listPlugins(workingSet) ==
    {d.project_name : d \in {e \in workingSet : e.location = UserPath}}

\* plugins.isStartUpPlugin(plugin)
isStartUpPlugin(plugin, startup) == plugin \in startup

\* plugins.startUpPlugins(plugins, add): the new list of startup plugins,
\* or RuntimeError when one of the plugins given is not installed
startUpPlugins(plugins, add, startup, workingSet) ==
    IF ~(plugins \subseteq listPlugins(workingSet))
    THEN [raised |-> "RuntimeError", startup |-> startup]
    ELSE [raised |-> None,
          startup |-> IF add THEN startup \cup plugins ELSE plugins]

\* PluginInfo.installed (getter)
installed(pipname, workingSet) == isInstalled(pipname, workingSet)

\* PluginInfo.active (getter)
active(pipname, startup) == isStartUpPlugin(pipname, startup)

\* the record of a call on a PluginInfo
PluginRet(fn, pipname, value, raised) ==
    [RetIdle EXCEPT !.fn = fn, !.package = pipname, !.value = value,
                    !.raised = raised]

\* PluginInfo.install: installPackage(self.pipname); plugins.scanPlugins()
install(fn, pipname, value) ==
    \E o \in installPackage(pipname, None, FALSE, FALSE, FALSE) :
        /\ userMeta' = o.meta
        /\ userTop' = o.top
        /\ ws' \in IF o.ret.raised = None THEN scanPlugins(o.meta, site) ELSE {ws}
        /\ ret' = PluginRet(fn, pipname, value, o.ret.raised)
        /\ UNCHANGED <<userDirExists, site, startUp>>

\* PluginInfo.uninstall: uninstallPackage(self.pipname); plugins.scanPlugins()
uninstall(fn, pipname, value) ==
    \E o \in uninstallPackage(pipname) :
        /\ userMeta' = o.meta
        /\ userTop' = o.top
        /\ site' = o.site
        /\ ws' \in IF o.ret.raised = None THEN scanPlugins(o.meta, o.site) ELSE {ws}
        /\ ret' = PluginRet(fn, pipname, value, o.ret.raised)
        /\ UNCHANGED <<userDirExists, startUp>>

\* the setter of PluginInfo.active
SetActiveTo(fn, pipname, value) ==
    LET r == IF value = "True"
             THEN startUpPlugins({pipname}, TRUE, startUp, ws)
             ELSE startUpPlugins(startUp \ {pipname}, FALSE, startUp, ws)
    IN  /\ startUp' = IF value = None THEN startUp ELSE r.startup
        /\ ret' = PluginRet(fn, pipname, value,
                            IF value = None THEN None ELSE r.raised)
        /\ UNCHANGED <<userDirExists, userMeta, userTop, site, ws>>

\* a setter of installed without the test for None
SetInstalledWithoutNoneTest(pipname, value) ==
    IF value = "True" /\ ~installed(pipname, ws)
    THEN install("PluginInfo.installed", pipname, value)
    ELSE IF installed(pipname, ws)
    THEN uninstall("PluginInfo.installed", pipname, value)
    ELSE /\ ret' = PluginRet("PluginInfo.installed", pipname, value, None)
         /\ UNCHANGED <<userDirExists, userMeta, userTop, site, ws, startUp>>

\* the setter of PluginInfo.installed
SetInstalledTo(pipname, value) ==
    IF value = None
    THEN /\ ret' = PluginRet("PluginInfo.installed", pipname, value, None)
         /\ UNCHANGED <<userDirExists, userMeta, userTop, site, ws, startUp>>
    ELSE IF value = "True" /\ ~installed(pipname, ws)
    THEN install("PluginInfo.installed", pipname, value)
    ELSE IF installed(pipname, ws)
    THEN uninstall("PluginInfo.installed", pipname, value)
    ELSE /\ ret' = PluginRet("PluginInfo.installed", pipname, value, None)
         /\ UNCHANGED <<userDirExists, userMeta, userTop, site, ws, startUp>>

PluginInstall ==
    /\ \E pipname \in PluginNames : install("PluginInfo.install", pipname, None)
    /\ UNCHANGED <<listState, items, initState, tdtVars, guiVars>>

PluginUninstall ==
    /\ \E pipname \in PluginNames : uninstall("PluginInfo.uninstall", pipname, None)
    /\ UNCHANGED <<listState, items, initState, tdtVars, guiVars>>

PluginActivate ==
    /\ \E pipname \in PluginNames :
          SetActiveTo("PluginInfo.activate", pipname, "True")
    /\ UNCHANGED <<listState, items, initState, tdtVars, guiVars>>

PluginDeactivate ==
    /\ \E pipname \in PluginNames :
          SetActiveTo("PluginInfo.deactivate", pipname, "False")
    /\ UNCHANGED <<listState, items, initState, tdtVars, guiVars>>

PluginSetActive ==
    /\ \E pipname \in PluginNames, value \in Tri :
          SetActiveTo("PluginInfo.active", pipname, value)
    /\ UNCHANGED <<listState, items, initState, tdtVars, guiVars>>

PluginSetInstalled ==
    /\ \E pipname \in PluginNames, value \in Tri : SetInstalledTo(pipname, value)
    /\ UNCHANGED <<listState, items, initState, tdtVars, guiVars>>

(***************************************************************************)
(* PluginBrowserList and getAllPluginDetails (plugins.py).                 *)
(***************************************************************************)
\* the catalogs the server may hold, as the pipnames of their entries
Catalogs ==
    {<<<<"a">>>>, <<<<"a", "-", "b">>, <<"a">>>>, <<<<"a", "_", "b">>>>}

\* the answers to requests.get("https://psychopy.org/plugins.json")
Responses ==
    {[status |-> 404, catalog |-> <<>>]}
    \cup {[status |-> 200, catalog |-> c] : c \in Catalogs}

\* the infos of the catalog alone
CatalogOnly(resp, localPlugins) ==
    IF resp.status = 404
    THEN [isNone |-> TRUE, objs |-> <<>>]
    ELSE [isNone |-> FALSE, objs |-> resp.catalog]

\* getAllPluginDetails: None on a 404, else the infos of the catalog and,
\* after them, of the local plugins that no info equals (PluginInfo.__eq__
\* compares the pipname with str(name))
getAllPluginDetails(resp, localPlugins) ==
    IF resp.status = 404
    THEN [isNone |-> TRUE, objs |-> <<>>]
    ELSE [isNone |-> FALSE,
          objs |-> resp.catalog
                   \o SelectSeq(localPlugins, LAMBDA n : n \notin Range(resp.catalog))]

\* the details in the order getAllPluginDetails gave them
KeepsOrder(objs, workingSet) == objs

\* items.sort(key=lambda obj: obj.installed, reverse=True): a stable sort
SortInstalledFirst(objs, workingSet) ==
    SelectSeq(objs, LAMBDA n : installed(n, workingSet))
    \o SelectSeq(objs, LAMBDA n : ~installed(n, workingSet))

\* PluginBrowserList.populate: the items it leaves, or the exception raised
\* (removeItem is not a method of the list; None has no sort)
populate(current, details, workingSet) ==
    IF current # <<>>
    THEN [raised |-> "AttributeError", items |-> current]
    ELSE IF details.isNone
    THEN [raised |-> "AttributeError", items |-> current]
    ELSE [raised |-> None, items |-> SortInstalledFirst(details.objs, workingSet)]

\* PluginBrowserList.__init__: populate, then store the state of each item
OpenBrowser ==
    /\ listState.phase = "none"
    /\ \E resp \in Responses, localPlugins \in Orderings(listPlugins(ws)) :
          LET r == populate(<<>>, getAllPluginDetails(resp, localPlugins), ws)
          IN  /\ listState' = [phase |-> IF r.raised = None THEN "made" ELSE "failed",
                               status |-> resp.status, raised |-> r.raised]
              /\ items' = r.items
              /\ initState' =
                    IF r.raised # None THEN initState
                    ELSE {[pipname |-> n, installed |-> installed(n, ws),
                           active |-> active(n, startUp)] : n \in Range(r.items)}
    /\ ret' = [RetIdle EXCEPT !.fn = "PluginBrowserList"]
    /\ UNCHANGED <<userDirExists, userMeta, userTop, site, ws, startUp, tdtVars, guiVars>>

\* the entry of initState for a pipname
InitOf(state, pipname) == CHOOSE e \in state : e.pipname = pipname

\* PluginBrowserList.getChanges: the dict of changes, as its entries
getChanges(listItems, state, workingSet, startup) ==
    {c \in {[pipname |-> n,
             changes |->
                LET inits == InitOf(state, n)
                IN  (IF active(n, startup) /\ ~inits.active
                     THEN <<"activated">> ELSE <<>>)
                    \o (IF inits.active /\ ~active(n, startup)
                        THEN <<"deactivated">> ELSE <<>>)
                    \o (IF installed(n, workingSet) /\ ~inits.installed
                        THEN <<"installed">> ELSE <<>>)] :
            n \in {m \in Range(listItems) : \E e \in state : e.pipname = m}} :
        c.changes # <<>>}

GetChanges ==
    /\ listState.phase = "made"
    /\ ret' = [RetIdle EXCEPT !.fn = "getChanges",
                  !.changes = getChanges(items, initState, ws, startUp)]
    /\ UNCHANGED <<userDirExists, userMeta, userTop, site, ws, pluginVars, tdtVars, guiVars>>

\* a call of getAllPluginDetails
GetAllPluginDetails ==
    /\ \E resp \in Responses, localPlugins \in Orderings(listPlugins(ws)) :
          ret' = [RetIdle EXCEPT
                     !.fn = "getAllPluginDetails",
                     !.resp = resp,
                     !.details = getAllPluginDetails(resp, localPlugins)]
    /\ UNCHANGED <<userDirExists, userMeta, userTop, site, ws, pluginVars,
                   tdtVars, guiVars>>

InitPlugins ==
    /\ userDirExists \in BOOLEAN
    /\ userMeta = {}
    /\ userTop = {}
    /\ site = {}
    /\ ws = {}
    /\ ret = RetIdle
    /\ InitPlugin
    /\ InitTDT
    /\ InitGui

NextPlugins ==
    \/ PluginInstall
    \/ PluginUninstall
    \/ PluginActivate
    \/ PluginDeactivate
    \/ PluginSetActive
    \/ PluginSetInstalled
    \/ OpenBrowser
    \/ GetChanges
    \/ GetAllPluginDetails

SpecPlugins == InitPlugins /\ [][NextPlugins]_vars

(***************************************************************************)
(* TDTManager (tdt_manager) and TDTSound (tdt_sound).  Objects and         *)
(* SynapseAPI connections are numbered in the order of their creation.     *)
(***************************************************************************)
\* the calls of TDTManager() in a run
MaxCalls == 4

\* the calls of TDTSound.play in a run
MaxStrobes == 3

\* a __new__ that allocates an object and a connection at every call
NewAlwaysAllocates(inst, objects, syns) ==
    [instance |-> [obj |-> objects + 1, syn |-> syns + 1],
     objects |-> objects + 1, syns |-> syns + 1]

\* TDTManager.__new__: the class attribute, the objects allocated and the
\* SynapseAPI objects created after the call; cls.instance is returned
TDTManager(inst, objects, syns) ==
    IF inst = NoInstance
    THEN [instance |-> [obj |-> objects + 1, syn |-> syns + 1],
          objects |-> objects + 1, syns |-> syns + 1]
    ELSE [instance |-> inst, objects |-> objects, syns |-> syns]

\* the sounds given to TDTSound: a note, noise, and a string that is
\* neither a note nor a number
SoundArgs == {"C5", "noise", "x"}

\* how TDTSound.__init__ ends: the configuration does not fit the gizmos
\* of the device (Exception), float(_sound) fails (ValueError), or the
\* object is made
SoundOutcome(configFits, sound) ==
    IF ~configFits THEN "Exception"
    ELSE IF sound \notin {"C5", "noise"} THEN "ValueError"
    ELSE None

\* a call of TDTManager() by the program
CallTDTManager ==
    /\ Len(returned) < MaxCalls
    /\ LET r == TDTManager(tdtInstance, tdtObjects, synCreated)
       IN  /\ tdtInstance' = r.instance
           /\ tdtObjects' = r.objects
           /\ synCreated' = r.syns
           /\ returned' = Append(returned, r.instance)
    /\ UNCHANGED <<sounds, device, pkgVars, pluginVars, guiVars>>

\* TDTSound(...): the manager is taken, the device is set idle, the gizmos
\* are read, the device is set recording and the sound is set
NewTDTSound ==
    /\ Len(returned) < MaxCalls
    /\ \E configFits \in BOOLEAN, sound \in SoundArgs :
          LET r == TDTManager(tdtInstance, tdtObjects, synCreated)
              outcome == SoundOutcome(configFits, sound)
          IN  /\ tdtInstance' = r.instance
              /\ tdtObjects' = r.objects
              /\ synCreated' = r.syns
              /\ returned' = Append(returned, r.instance)
              /\ device' = [device EXCEPT
                    !.mode = IF outcome = "Exception" THEN IDLE ELSE RECORDING]
              /\ sounds' = IF outcome = None
                           THEN Append(sounds, [tdt |-> r.instance.obj,
                                                syn |-> r.instance.syn,
                                                sound |-> sound])
                           ELSE sounds
    /\ UNCHANGED <<pkgVars, pluginVars, guiVars>>

\* TDTSound.play: the strobe of the stimulus gizmo is set through the
\* connection of the sound
Play ==
    /\ device.strobes < MaxStrobes
    /\ \E i \in DOMAIN sounds :
          device' = [device EXCEPT !.strobes = @ + 1]
    /\ UNCHANGED <<tdtInstance, tdtObjects, synCreated, returned, sounds,
                   pkgVars, pluginVars, guiVars>>

InitSound ==
    /\ userDirExists = TRUE
    /\ userMeta = {}
    /\ userTop = {}
    /\ site = {}
    /\ ws = {}
    /\ ret = RetIdle
    /\ InitPlugin
    /\ InitTDT
    /\ InitGui

NextSound ==
    \/ CallTDTManager
    \/ NewTDTSound
    \/ Play

SpecSound == InitSound /\ [][NextSound]_vars

(***************************************************************************)
(* PluginInstallBtn and markInstalled (plugins.py).  The list holds an     *)
(* item for each plugin; the details panel shows one plugin or none.       *)
(***************************************************************************)
\* a value as a condition: "elif installed:" and bool(installed)
Truthy(value) == value = "True"

\* no list item: getItem found none, or the panel has no list
NoItem == NoName

\* a markInstalled that leaves the button of an installed plugin enabled
MarkEnablesInstalled(value) ==
    IF value = None
    THEN [enabled |-> FALSE, label |-> "...", marked |-> value]
    ELSE IF Truthy(value)
    THEN [enabled |-> TRUE, label |-> "Installed", marked |-> value]
    ELSE [enabled |-> TRUE, label |-> "Install", marked |-> value]

\* PluginInstallBtn.markInstalled: the button after the call; the labels
\* are the messages given to _translate
PluginInstallBtn_markInstalled(value) ==
    IF value = None
    THEN [enabled |-> FALSE, label |-> "...", marked |-> value]
    ELSE IF Truthy(value)
    THEN [enabled |-> FALSE, label |-> "Installed", marked |-> value]
    ELSE [enabled |-> TRUE, label |-> "Install", marked |-> value]

\* markInstalled(pluginItem, pluginPanel, installed): the button of the
\* item, and those of the panel when it shows the plugin of the item
markInstalled(btns, pluginItem, pluginPanel, value) ==
    LET marked == PluginInstallBtn_markInstalled(value)
        b1 == IF pluginItem # NoItem
              THEN [btns EXCEPT !.item[pluginItem] = marked]
              ELSE btns
    IN  IF pluginPanel /\ pluginItem # NoItem /\ btns.info = pluginItem
        THEN [b1 EXCEPT !.panel = marked, !.activeEnabled = Truthy(value)]
        ELSE b1

\* PluginBrowserList.getItem(info), None for a panel without a list
getItem(hasList, info) ==
    IF hasList /\ info \in PluginNames THEN info ELSE NoItem

\* PluginListItem.markInstalled, with or without a viewer panel
ItemMarkInstalled ==
    /\ \E n \in PluginNames, hasViewer \in BOOLEAN, value \in Tri :
          buttons' = markInstalled(buttons, n, hasViewer, value)
    /\ UNCHANGED <<pkgVars, pluginVars, tdtVars, form>>

\* PluginDetailsPanel.markInstalled
PanelMarkInstalled ==
    /\ \E hasList \in BOOLEAN, value \in Tri :
          buttons' = markInstalled(buttons, getItem(hasList, buttons.info),
                                   TRUE, value)
    /\ UNCHANGED <<pkgVars, pluginVars, tdtVars, form>>

\* the setter of PluginDetailsPanel.info: the plugin is shown and its
\* installed state is marked
SetPanelInfo ==
    /\ \E value \in PluginNames \cup {NoName}, hasList \in BOOLEAN :
          LET info == IF value = NoName THEN NoInfo ELSE value
              shown == [buttons EXCEPT !.info = info]
          IN  buttons' = markInstalled(shown, getItem(hasList, info), TRUE,
                            IF installed(info, ws) THEN "True" ELSE "False")
    /\ UNCHANGED <<pkgVars, pluginVars, tdtVars, form>>

InitButtons ==
    /\ userDirExists = TRUE
    /\ userMeta = {}
    /\ userTop = {}
    /\ site = {}
    /\ ws = {}
    /\ ret = RetIdle
    /\ InitPlugin
    /\ InitTDT
    /\ InitGui

NextButtons ==
    \/ ItemMarkInstalled
    \/ PanelMarkInstalled
    \/ SetPanelInfo

SpecButtons == InitButtons /\ [][NextButtons]_vars

(***************************************************************************)
(* Form (test_form.py).  The class is psychopy.visual.form.Form, which is  *)
(* not among the sources: getRespHeight is modelled by what the test       *)
(* asserts of it.  Heights are in thousandths of the height of the window. *)
(***************************************************************************)
\* the survey items of a Form
MaxItems == 3

\* item['aOptions'] of the questions of the test
OptionLists == {<<"Male", "Female", "Other">>, <<"Lots", "Not a lot">>}

\* Form.textHeight: 0.03 unless another is given
TextHeights == {20, 30, 50}

\* the lists of survey items given to Form
SurveyItems ==
    UNION {[1..n -> OptionLists] : n \in 1..MaxItems}

\* a height that does not count the options
OneLineHeight(aOptions, textHeight) == textHeight

\* Form.getRespHeight(item['aOptions'])
getRespHeight(aOptions, textHeight) == Len(aOptions) * textHeight

\* Form(win, surveyItems=questions, ...)
NewForm ==
    /\ ~form.made
    /\ \E textHeight \in TextHeights, surveyItems \in SurveyItems :
          form' = [made |-> TRUE, textHeight |-> textHeight,
                   surveyItems |-> surveyItems, asked |-> 0, respHeight |-> 0]
    /\ UNCHANGED <<pkgVars, pluginVars, tdtVars, buttons>>

\* survey.getRespHeight(item['aOptions']) for an item of survey.surveyItems
GetRespHeight ==
    /\ form.made
    /\ \E i \in DOMAIN form.surveyItems :
          form' = [form EXCEPT
                      !.asked = i,
                      !.respHeight = getRespHeight(form.surveyItems[i],
                                                   form.textHeight)]
    /\ UNCHANGED <<pkgVars, pluginVars, tdtVars, buttons>>

InitForm ==
    /\ userDirExists = TRUE
    /\ userMeta = {}
    /\ userTop = {}
    /\ site = {}
    /\ ws = {}
    /\ ret = RetIdle
    /\ InitPlugin
    /\ InitTDT
    /\ InitGui

NextForm ==
    \/ NewForm
    \/ GetRespHeight

SpecForm == InitForm /\ [][NextForm]_vars

(***************************************************************************)
(* Claims about the package tools.                                         *)
(***************************************************************************)
\* the metadata directories of the package being uninstalled: those named
\* after the distribution that pkg_resources finds for the package
PackageMeta(package) ==
    {m \in userMeta : \E d \in get_distribution(package, ws) :
        DirNameOf(m) = MetaDirName(to_filename(d.project_name), d.version,
                                   d.py_version)}

\* an unrelated package: a metadata directory whose name does not start
\* with the name prefix of the project being uninstalled
Unrelated(package) ==
    {m \in userMeta : \A d \in get_distribution(package, ws) :
        ~StartsWith(DirNameOf(m), to_filename(d.project_name) \o <<"-">>)}

\* the top-level directories of the package that the metadata of an
\* unrelated package lists as well
SharedWithUnrelated(package) ==
    {d \in userTop :
        /\ \E m \in PackageMeta(package) : m.top.file /\ d \in Range(m.top.lines)
        /\ \E o \in Unrelated(package) : o.top.file /\ d \in Range(o.top.lines)}

\* C1: a call of _uninstallUserPackage never removes a top-level directory
\* of the package that the metadata of an unrelated package (a .dist-info
\* directory whose name does not start with the project's name prefix)
\* lists too: every such directory still exists after the call.
C1_SharedDirectoriesKept ==
    [][ret'.manual => SharedWithUnrelated(ret'.package) \subseteq userTop']_vars

\* C1 witness: a manual uninstall that succeeded, removed a directory of
\* the package and left one that another package was reported to use.
C1_Witness ==
    /\ ret.manual /\ ret.raised = None /\ ret.retcode
    /\ ret.rmTop # {}
    /\ ret.unsafe # {} /\ ret.unsafe \subseteq userTop

C3_UninstallReturnsTrueIffNoError ==
    (ret.fn = "uninstallPackage" /\ ret.raised = None)
        => (ret.retcode <=> ret.stderr = "")

\* C4: installPackage returns True if pip wrote nothing to stderr and False
\* if an error was reported on stderr.
C4_InstallReturnsTrueIffNoError ==
    (ret.fn = "installPackage" /\ ret.raised = None)
        => (ret.retcode <=> ret.stderr = "")

\* C5: installPackage with a target that does not exist (the given one, or
\* the user package directory when target is None) raises
\* NotADirectoryError before any pip subprocess is started: nothing is
\* installed and no state changes.
C5_MissingTargetRaises ==
    [][(/\ ret'.fn = "installPackage"
        /\ \/ ret'.target = "missing"
           \/ ret'.target \in {None, UserPath} /\ ~userDirExists)
       => /\ ret'.raised = "NotADirectoryError"
          /\ ~ret'.pip /\ ret'.cmd = NoCmd
          /\ UNCHANGED <<userDirExists, userMeta, userTop, site, ws>>]_vars

\* C5 witness: installPackage with target None raised NotADirectoryError
\* because the user package directory does not exist.
C5_Witness ==
    /\ ret.fn = "installPackage" /\ ret.target = None
    /\ ~userDirExists /\ ret.raised = "NotADirectoryError"

C6_NotInstalledNotActive ==
    \A pipname \in PluginNames :
        ~installed(pipname, ws) => ~active(pipname, startUp)

\* C7: getChanges has an entry for a plugin of the list exactly when its
\* installed or its active value differs from the one stored in initState.
C7_ChangesExactlyTheChanged ==
    ret.fn = "getChanges" =>
        \A e \in initState :
            (\E c \in ret.changes : c.pipname = e.pipname)
                <=> \/ installed(e.pipname, ws) # e.installed
                    \/ active(e.pipname, startUp) # e.active

\* C8: when the catalog request answers 404, PluginBrowserList.populate
\* completes without an error and leaves an empty list of plugins.
C8_NotFoundLeavesEmptyList ==
    (listState.phase # "none" /\ listState.status = 404)
        => (listState.phase = "made" /\ listState.raised = None /\ items = <<>>)

InstallBtns == {buttons.item[n] : n \in PluginNames} \cup {buttons.panel}

\* C11: a button marked None is disabled and labelled "...", one marked
\* True is disabled and labelled "Installed", one marked False is enabled
\* and labelled "Install"; a marked button is enabled if and only if the
\* state marked last is False.
C11_ButtonShowsMarkedState ==
    \A b \in InstallBtns :
        /\ b.marked = None => (~b.enabled /\ b.label = "...")
        /\ b.marked = "True" => (~b.enabled /\ b.label = "Installed")
        /\ b.marked = "False" => (b.enabled /\ b.label = "Install")
        /\ b.marked # "unmarked" => (b.enabled <=> b.marked = "False")

C11_Witness ==
    /\ buttons.item[<<"a">>].marked = "True"
    /\ buttons.item[<<"a", "-", "b">>].marked = "False"
    /\ buttons.panel.marked = None

(***************************************************************************)
(* Claims about the setters of PluginInfo.                                 *)
(***************************************************************************)
\* C12: a step that assigns None to PluginInfo.active or to
\* PluginInfo.installed changes neither the user package directory, nor the
\* packages installed, nor the list of startup plugins: the installed and
\* the active value of every plugin are as before.
C12_NoneSkips ==
    [][(ret'.fn \in {"PluginInfo.active", "PluginInfo.installed"}
            /\ ret'.value = None)
        => /\ UNCHANGED <<userDirExists, userMeta, userTop, site, ws, startUp>>
           /\ \A n \in PluginNames :
                 /\ installed(n, ws') = installed(n, ws)
                 /\ active(n, startUp') = active(n, startUp)]_vars

C12_Witness ==
    /\ ret.fn = "PluginInfo.installed"
    /\ ret.value = None
    /\ installed(ret.package, ws)
    /\ active(ret.package, startUp)

(***************************************************************************)
(* Claims about the list of plugins.                                       *)
(***************************************************************************)
\* C13: when PluginBrowserList.populate has completed, no item of a plugin
\* that is not installed comes before an item of a plugin that is
\* installed.
C13_InstalledFirst ==
    (ret.fn = "PluginBrowserList" /\ listState.phase = "made")
        => \A i, j \in DOMAIN items :
              (i < j /\ installed(items[j], ws)) => installed(items[i], ws)

C13_Witness ==
    /\ ret.fn = "PluginBrowserList"
    /\ listState.phase = "made"
    /\ items = <<<<"a">>, <<"a", "-", "b">>>>
    /\ installed(<<"a">>, ws)
    /\ ~installed(<<"a", "-", "b">>, ws)

C15_CatalogThenLocal ==
    (ret.fn = "getAllPluginDetails" /\ ret.resp.status # 404)
        => LET objs == ret.details.objs
               catalog == ret.resp.catalog
               extra == listPlugins(ws) \ Range(catalog)
           IN  /\ ~ret.details.isNone
               /\ Len(objs) = Len(catalog) + Cardinality(extra)
               /\ SubSeq(objs, 1, Len(catalog)) = catalog
               /\ {objs[i] : i \in (Len(catalog) + 1)..Len(objs)} = extra
               /\ listPlugins(ws) \subseteq Range(objs)

C15_Witness ==
    /\ ret.fn = "getAllPluginDetails"
    /\ ret.resp.catalog = <<<<"a">>>>
    /\ listPlugins(ws) = {<<"a">>, <<"a", "-", "b">>}
    /\ ret.details.objs = <<<<"a">>, <<"a", "-", "b">>>>

====
